---- MODULE Spec2Model ----
(***************************************************************************)
(* State-machine model of the streaming session hook useAudioStream        *)
(* (src/app/src/hooks/useAudioStream.ts): the WebSocket connection         *)
(* manager, the microphone capture pipeline, the silence detector, the     *)
(* playback sequencer and the protocol message router.                     *)
(*                                                                         *)
(* Every handler of the hook is a pure operator from a session record S    *)
(* (one field per ref / state cell of the hook) to the session record      *)
(* after the handler has run to its next suspension point; an action       *)
(* applies one handler to the current state.  Variables whose name starts  *)
(* with "g" are history variables that only observe.                       *)
(***************************************************************************)
EXTENDS Integers, Sequences, FiniteSets, TLC

VARIABLES
    \* ---- connection manager (useAudioStream.ts lines 16-18, 39, 45-121)
    mounted,                   \* an instance of the connection effect is active
    socketRef,                 \* socketRef.current (rs = "NULL": null)
    stale,                     \* sockets no longer referenced that can still fire events
    isConnectingRef,           \* isConnectingRef.current
    reconnectAttemptRef,       \* reconnectAttemptRef.current
    reconnectTimeoutRef,       \* reconnectTimeoutRef.current is non-null
    timers,                    \* pending window.setTimeout callbacks of onclose
    isConnected,               \* React state isConnected
    error,                     \* React state error
    \* ---- session state (lines 8-10, 25, 41-42, 249)
    appState,                  \* React state appState (the value last set)
    appStateRef,               \* appStateRef.current, synchronised by an effect
    emotion,                   \* React state emotion
    transcript,                \* React state transcript (a string is the sequence of its characters)
    isConversationActiveRef,   \* isConversationActiveRef.current
    isConversationActive,      \* React state isConversationActive
    currentSettingsRef,        \* currentSettingsRef.current: the number of the settings object, 0: the one given to the hook
    \* ---- playback sequencer (lines 20-22, 403-481)
    audioQueueRef,             \* audioQueueRef.current: fragments not yet shifted
    isPlayingRef,              \* isPlayingRef.current
    audioCtx,                  \* audioContextRef.current: null, or its state
    drains,                    \* playNextInQueue invocations suspended at an await
    playing,                   \* fragments whose source has started and not ended
    \* ---- capture pipeline and silence detector (lines 19, 24, 28, 31-36, 258-400)
    captures,                  \* streams returned by getUserMedia, each with its recorder
    mediaRecorderRef,          \* mediaRecorderRef.current: index in captures, 0: null
    mediaStreamRef,            \* mediaStreamRef.current: index in captures, 0: null
    starts,                    \* _startMediaRecorder invocations suspended at an await
    inputAnalyser,             \* React state inputAnalyser: index in captures, 0: null
    lastVoiceActivityAtRef,    \* performance.now() - lastVoiceActivityAtRef.current in ms, -1: null
    didAutoStopSegmentRef,     \* didAutoStopSegmentRef.current
    interval,                  \* the setInterval of the silence effect is installed
    effDeps,                   \* [appState, inputAnalyser] seen by the last run of the silence effect
    userRecordedAudioRef,      \* userRecordedAudioRef.current
    readers,                   \* FileReaders of recorder.onstop that have not fired onloadend
    sent,                      \* frames handed to socket.send, oldest first
    \* ---- message log (lines 11, 35, 135-155, 168-181, 215-226, 415-431)
    messages,                  \* React state messages
    currentAiAudioChunksRef,   \* currentAiAudioChunksRef.current
    treaders,                  \* FileReaders of a final transcript that have not fired onloadend
    now,                       \* Date.now(), in ms since the hook was created
    \* ---- history (observes only)
    gMounts,                   \* number of runs of the connection effect
    gCloses,                   \* unexpected socket closes since the last successful open
    gCreated,                  \* the last step ran `new WebSocket`
    gScheduled,                \* the last step ran window.setTimeout
    gNextFrag,                 \* number of audio fragments handed to queueAudio
    gStarted,                  \* fragments in the order of source.start
    gPending,                  \* fragments that were enqueued and not started at a user_speaking
    gNextChunk,                \* number of non-empty chunks captured
    gStarts,                   \* number of calls of startRecording
    gArrivals,                 \* number of events processed that create a message
    gDrops,                    \* for each malformed frame received, gArrivals at its arrival
    gChatCalls                 \* number of calls of sendChatMessage

connVars == <<mounted, socketRef, stale, isConnectingRef,
              reconnectAttemptRef, reconnectTimeoutRef, timers, isConnected,
              error>>

uiVars == <<appState, appStateRef, emotion, transcript,
            isConversationActiveRef, isConversationActive, currentSettingsRef>>

playVars == <<audioQueueRef, isPlayingRef, audioCtx, drains, playing>>

capVars == <<captures, mediaRecorderRef, mediaStreamRef, starts,
             inputAnalyser, lastVoiceActivityAtRef, didAutoStopSegmentRef,
             interval, effDeps, userRecordedAudioRef, readers, sent>>

logVars == <<messages, currentAiAudioChunksRef, treaders, now>>

histVars == <<gMounts, gCloses, gCreated, gScheduled, gNextFrag, gStarted,
              gPending, gNextChunk, gStarts, gArrivals, gDrops, gChatCalls>>

vars == <<connVars, uiVars, playVars, capVars, logVars, histVars>>

-----------------------------------------------------------------------------
(* Bounds of the model *)

MaxMounts == 3        \* runs of the connection effect (mount, remount)
MaxAttempt == 12      \* reconnect attempts explored (the cap is hit at 10)
MaxDrops == 1         \* socket closes explored together with a session
MaxFrags == 3         \* audio fragments received
MaxTurnFrags == 2     \* audio fragments of a reply in a turn
MaxChunks == 2        \* non-empty chunks captured
MaxStarts == 2        \* calls of startRecording
MaxChats == 1         \* chat messages submitted
TickMs == 500         \* granularity of the clock
MaxMsgs == 2          \* messages created
MaxNow == 1           \* milliseconds of Date.now() explored
MaxLogFrags == 1      \* audio fragments received next to the message log
MaxLogChunks == 1     \* chunks captured next to the message log
MaxChatCalls == 2     \* calls of sendChatMessage, blank texts included
MaxMalformed == 1     \* malformed frames received
MaxSettings == 2      \* update_settings frames sent

(* Program constants *)

BaseMs == 500
CapMs == 5000
SILENCE_MS == 1500
RMS_THRESHOLD == 10   \* 0.01, in thousandths
MinuteMs == 60000     \* the timestamp of a message shows hour and minute

Min(a, b) == IF a < b THEN a ELSE b

-----------------------------------------------------------------------------
(* The session record *)

Cur ==
    [mounted |-> mounted,
     socketRef |-> socketRef,
     stale |-> stale,
     isConnectingRef |-> isConnectingRef,
     reconnectAttemptRef |-> reconnectAttemptRef,
     reconnectTimeoutRef |-> reconnectTimeoutRef,
     timers |-> timers,
     isConnected |-> isConnected,
     error |-> error,
     appState |-> appState,
     appStateRef |-> appStateRef,
     emotion |-> emotion,
     transcript |-> transcript,
     isConversationActiveRef |-> isConversationActiveRef,
     isConversationActive |-> isConversationActive,
     currentSettingsRef |-> currentSettingsRef,
     audioQueueRef |-> audioQueueRef,
     isPlayingRef |-> isPlayingRef,
     audioCtx |-> audioCtx,
     drains |-> drains,
     playing |-> playing,
     captures |-> captures,
     mediaRecorderRef |-> mediaRecorderRef,
     mediaStreamRef |-> mediaStreamRef,
     starts |-> starts,
     inputAnalyser |-> inputAnalyser,
     lastVoiceActivityAtRef |-> lastVoiceActivityAtRef,
     didAutoStopSegmentRef |-> didAutoStopSegmentRef,
     interval |-> interval,
     effDeps |-> effDeps,
     userRecordedAudioRef |-> userRecordedAudioRef,
     readers |-> readers,
     sent |-> sent,
     messages |-> messages,
     currentAiAudioChunksRef |-> currentAiAudioChunksRef,
     treaders |-> treaders,
     now |-> now,
     gMounts |-> gMounts,
     gCloses |-> gCloses,
     gCreated |-> gCreated,
     gScheduled |-> gScheduled,
     gNextFrag |-> gNextFrag,
     gStarted |-> gStarted,
     gPending |-> gPending,
     gNextChunk |-> gNextChunk,
     gStarts |-> gStarts,
     gArrivals |-> gArrivals,
     gDrops |-> gDrops,
     gChatCalls |-> gChatCalls]

Set(S) ==
    /\ mounted' = S.mounted
    /\ socketRef' = S.socketRef
    /\ stale' = S.stale
    /\ isConnectingRef' = S.isConnectingRef
    /\ reconnectAttemptRef' = S.reconnectAttemptRef
    /\ reconnectTimeoutRef' = S.reconnectTimeoutRef
    /\ timers' = S.timers
    /\ isConnected' = S.isConnected
    /\ error' = S.error
    /\ appState' = S.appState
    /\ appStateRef' = S.appStateRef
    /\ emotion' = S.emotion
    /\ transcript' = S.transcript
    /\ isConversationActiveRef' = S.isConversationActiveRef
    /\ isConversationActive' = S.isConversationActive
    /\ currentSettingsRef' = S.currentSettingsRef
    /\ audioQueueRef' = S.audioQueueRef
    /\ isPlayingRef' = S.isPlayingRef
    /\ audioCtx' = S.audioCtx
    /\ drains' = S.drains
    /\ playing' = S.playing
    /\ captures' = S.captures
    /\ mediaRecorderRef' = S.mediaRecorderRef
    /\ mediaStreamRef' = S.mediaStreamRef
    /\ starts' = S.starts
    /\ inputAnalyser' = S.inputAnalyser
    /\ lastVoiceActivityAtRef' = S.lastVoiceActivityAtRef
    /\ didAutoStopSegmentRef' = S.didAutoStopSegmentRef
    /\ interval' = S.interval
    /\ effDeps' = S.effDeps
    /\ userRecordedAudioRef' = S.userRecordedAudioRef
    /\ readers' = S.readers
    /\ sent' = S.sent
    /\ messages' = S.messages
    /\ currentAiAudioChunksRef' = S.currentAiAudioChunksRef
    /\ treaders' = S.treaders
    /\ now' = S.now
    /\ gMounts' = S.gMounts
    /\ gCloses' = S.gCloses
    /\ gCreated' = S.gCreated
    /\ gScheduled' = S.gScheduled
    /\ gNextFrag' = S.gNextFrag
    /\ gStarted' = S.gStarted
    /\ gPending' = S.gPending
    /\ gNextChunk' = S.gNextChunk
    /\ gStarts' = S.gStarts
    /\ gArrivals' = S.gArrivals
    /\ gDrops' = S.gDrops
    /\ gChatCalls' = S.gChatCalls

\* The state a step starts from: the per-step history flags are lowered.
Begin == [Cur EXCEPT !.gCreated = FALSE, !.gScheduled = FALSE]

-----------------------------------------------------------------------------
(* Sockets.  rs is WebSocket.readyState; onclose tells whether the onclose   *)
(* handler is still installed; isMounted is the closure variable of the      *)
(* effect instance that created the socket; teardown (history) tells that    *)
(* close() was called on it by connect() or by the effect cleanup.           *)

NoSocket == [rs |-> "NULL", onclose |-> FALSE, isMounted |-> FALSE, teardown |-> FALSE]

NewSocket == [rs |-> "CONNECTING", onclose |-> TRUE, isMounted |-> TRUE, teardown |-> FALSE]

\* WebSocket.close(): a connecting or open socket starts closing.
Close(s) == IF s.rs \in {"CONNECTING", "OPEN"} THEN [s EXCEPT !.rs = "CLOSING"] ELSE s

\* socket.onclose = null; socket.close()
Detach(s) == [Close(s) EXCEPT !.onclose = FALSE, !.teardown = TRUE]

\* Handles of the sockets that exist: 0 is socketRef.current, i > 0 is stale[i].
Handles(S) == {0} \cup (1 .. Len(S.stale))

Sock(S, h) == IF h = 0 THEN S.socketRef ELSE S.stale[h]

RemoveAt(q, i) == SubSeq(q, 1, i - 1) \o SubSeq(q, i + 1, Len(q))

\* The socket of handle h becomes s; a stale socket that is closed fires no
\* further event and is forgotten.
PutSock(S, h, s) ==
    IF h = 0 THEN [S EXCEPT !.socketRef = s]
    ELSE IF s.rs = "CLOSED" THEN [S EXCEPT !.stale = RemoveAt(@, h)]
    ELSE [S EXCEPT !.stale[h] = s]

Live(s) == s.rs \in {"CONNECTING", "OPEN"}

\* Number of sockets that are connecting or open.
NLive(S) ==
    Cardinality({h \in Handles(S) : Live(Sock(S, h))})

-----------------------------------------------------------------------------
(* Connection manager *)

\* window.clearTimeout(reconnectTimeoutRef.current)
ClearTimeoutRef(S) ==
    IF S.reconnectTimeoutRef
    THEN [S EXCEPT !.timers = SelectSeq(@, LAMBDA t : ~t.ref)]
    ELSE S

DelayNoCap(attempt) == BaseMs * attempt

\* Math.min(5000, 500 * attempt)
Delay(attempt) == Min(CapMs, BaseMs * attempt)

\* connect(), called from an effect instance whose isMounted is true
connect(S) ==
    IF S.isConnectingRef THEN S
    ELSE LET S1 == [ClearTimeoutRef(S) EXCEPT !.isConnectingRef = TRUE,
                                              !.reconnectTimeoutRef = FALSE]
             old == S1.socketRef
             S2 == IF old.rs = "NULL" THEN S1
                   ELSE [S1 EXCEPT !.stale = IF Detach(old).rs = "CLOSED" THEN @
                                             ELSE Append(@, Detach(old)),
                                   !.socketRef = NoSocket]
         IN  [S2 EXCEPT !.socketRef = NewSocket, !.gCreated = TRUE]

onopenKeepAttempt(S, s) ==
    IF ~s.isMounted THEN S
    ELSE [S EXCEPT !.isConnected = TRUE, !.error = "null",
                   !.isConnectingRef = FALSE]

\* socket.onopen of socket s
onopen(S, s) ==
    IF ~s.isMounted THEN S
    ELSE [S EXCEPT !.isConnected = TRUE, !.error = "null",
                   !.reconnectAttemptRef = 0, !.isConnectingRef = FALSE]

oncloseNoTimer(S, s) ==
    IF ~s.isMounted THEN S
    ELSE [S EXCEPT !.isConnected = FALSE, !.isConnectingRef = FALSE,
                   !.reconnectAttemptRef = @ + 1]

\* socket.onclose of socket s
onclose(S, s) ==
    IF ~s.isMounted THEN S
    ELSE LET attempt == S.reconnectAttemptRef + 1
             timer == [delayMs |-> Delay(attempt), isMounted |-> s.isMounted,
                       ref |-> TRUE]
         IN  [S EXCEPT !.isConnected = FALSE, !.isConnectingRef = FALSE,
                       !.reconnectAttemptRef = attempt,
                       !.timers = Append([i \in 1 .. Len(@) |->
                                             [@[i] EXCEPT !.ref = FALSE]], timer),
                       !.reconnectTimeoutRef = TRUE,
                       !.gScheduled = TRUE]

onerrorResets(S, s) ==
    [S EXCEPT !.error = IF s.isMounted THEN "conn" ELSE @,
              !.isConnectingRef = FALSE,
              !.appState = "idle"]

\* socket.onerror of socket s: the socket is already closed when the event
\* is dispatched, so its socket.close() changes nothing.
onerror(S, s) ==
    [S EXCEPT !.error = IF s.isMounted THEN "conn" ELSE @,
              !.isConnectingRef = FALSE]

cleanupKeepTimer(S) ==
    LET unm(s) == [s EXCEPT !.isMounted = FALSE]
        S1 == [S EXCEPT !.mounted = FALSE,
                        !.socketRef = unm(@),
                        !.stale = [i \in 1 .. Len(@) |-> unm(@[i])],
                        !.timers = [i \in 1 .. Len(@) |-> unm(@[i])]]
        S3 == IF S1.socketRef.rs = "NULL" THEN S1
              ELSE [S1 EXCEPT !.socketRef = Detach(@)]
    IN  [S3 EXCEPT !.isConnectingRef = FALSE]

cleanupKeepSocket(S) ==
    LET unm(s) == [s EXCEPT !.isMounted = FALSE]
        S1 == [S EXCEPT !.mounted = FALSE,
                        !.socketRef = unm(@),
                        !.stale = [i \in 1 .. Len(@) |-> unm(@[i])],
                        !.timers = [i \in 1 .. Len(@) |-> unm(@[i])]]
        S2 == ClearTimeoutRef(S1)
    IN  [S2 EXCEPT !.isConnectingRef = FALSE]

\* The cleanup of the connection effect: isMounted of this effect instance
\* becomes false in every closure that captured it.
cleanup(S) ==
    LET unm(s) == [s EXCEPT !.isMounted = FALSE]
        S1 == [S EXCEPT !.mounted = FALSE,
                        !.socketRef = unm(@),
                        !.stale = [i \in 1 .. Len(@) |-> unm(@[i])],
                        !.timers = [i \in 1 .. Len(@) |-> unm(@[i])]]
        S2 == ClearTimeoutRef(S1)
        S3 == IF S2.socketRef.rs = "NULL" THEN S2
              ELSE [S2 EXCEPT !.socketRef = Detach(@)]
    IN  [S3 EXCEPT !.isConnectingRef = FALSE]

-----------------------------------------------------------------------------
(* Capture pipeline.  captures[c] is the c-th stream returned by            *)
(* getUserMedia: live tells whether its tracks are live; rec is the state   *)
(* of the MediaRecorder built on it ("none": not built yet, "recording",    *)
(* "inactive": stopped with its final dataavailable and stop events still   *)
(* to be dispatched, "done": stop event dispatched); chunks is the array    *)
(* `chunks` of the recorder's closure; autoStops (history) counts the       *)
(* silence auto-stops of this segment.                                      *)

NewCapture == [live |-> TRUE, rec |-> "none", chunks |-> <<>>, autoStops |-> 0]

Recording(S) ==
    /\ S.mediaRecorderRef # 0
    /\ S.captures[S.mediaRecorderRef].rec = "recording"

\* MediaRecorder.stop() on the recorder of capture c
StopRecorder(S, c) == [S EXCEPT !.captures[c].rec = "inactive"]

\* stream.getTracks().forEach(track => track.stop()) on stream c: a recorder
\* that still records a stream without live tracks stops.
StopTracks(S, c) ==
    [S EXCEPT !.captures[c].live = FALSE,
              !.captures[c].rec = IF @ = "recording" THEN "inactive" ELSE @]

\* _startMediaRecorder up to its first await (getUserMedia)
startMediaRecorder(S) ==
    IF Recording(S) THEN S
    ELSE [S EXCEPT !.starts = Append(@, [pc |-> "gum", stream |-> 0])]

finishStartNoReset(S, c) ==
    [S EXCEPT !.inputAnalyser = c,
              !.transcript = <<>>,
              !.captures[c].rec = IF S.captures[c].live THEN "recording" ELSE "inactive",
              !.mediaRecorderRef = c,
              !.appState = "listening"]

\* _startMediaRecorder from createMediaStreamSource to its end, on stream c
finishStart(S, c) ==
    [S EXCEPT !.inputAnalyser = c,
              !.lastVoiceActivityAtRef = 0,
              !.didAutoStopSegmentRef = FALSE,
              !.captures[c].rec = IF S.captures[c].live THEN "recording" ELSE "inactive",
              !.mediaRecorderRef = c,
              !.appState = "listening",
              !.transcript = <<>>]

\* getUserMedia of the suspended start i resolves; cs is the state in which
\* an AudioContext is created if there is none yet.
gumResolved(S, i, cs) ==
    LET c == Len(S.captures) + 1
        S1 == [S EXCEPT !.captures = Append(@, NewCapture),
                        !.mediaStreamRef = c,
                        !.audioCtx = IF @ = "null" THEN cs ELSE @]
    IN  IF S1.audioCtx = "suspended"
        THEN [S1 EXCEPT !.starts[i] = [pc |-> "resume", stream |-> c]]
        ELSE finishStart([S1 EXCEPT !.starts = RemoveAt(@, i)], c)

gumRejectedNoError(S, i) ==
    [S EXCEPT !.starts = RemoveAt(@, i),
              !.isConversationActiveRef = FALSE]

\* getUserMedia of the suspended start i rejects: the catch block
gumRejected(S, i) ==
    [S EXCEPT !.starts = RemoveAt(@, i),
              !.error = "mic",
              !.isConversationActiveRef = FALSE]

\* _startMediaRecorder resumed after await audioContext.resume() (start i)
startResumed(S, i) ==
    finishStart([S EXCEPT !.starts = RemoveAt(@, i)], S.starts[i].stream)

\* stopMediaRecorder
stopMediaRecorder(S) ==
    LET S1 == IF Recording(S) THEN StopRecorder(S, S.mediaRecorderRef) ELSE S
        m == S1.mediaStreamRef
    IN  IF m # 0 THEN [StopTracks(S1, m) EXCEPT !.mediaStreamRef = 0] ELSE S1

\* mediaRecorder.ondataavailable of capture c with a non-empty chunk k
ondataavailable(S, c, k) ==
    [S EXCEPT !.captures[c].chunks = Append(@, k),
              !.userRecordedAudioRef = Append(@, k)]

onstopNoCheck(S, c) ==
    [S EXCEPT !.readers = Append(@, [seg |-> c, blob |-> S.captures[c].chunks])]

\* mediaRecorder.onstop of capture c, up to reader.readAsDataURL
onstop(S, c) ==
    IF S.captures[c].chunks = <<>> THEN S
    ELSE [S EXCEPT !.readers = Append(@, [seg |-> c, blob |-> S.captures[c].chunks])]

onloadendNoCheck(S, j) ==
    [S EXCEPT !.readers = RemoveAt(@, j),
              !.sent = Append(@, [type |-> "audio_complete", seg |-> S.readers[j].seg,
                                  data |-> S.readers[j].blob])]

\* reader.onloadend of the pending reader j
onloadend(S, j) ==
    IF S.socketRef.rs = "OPEN"
    THEN [S EXCEPT !.readers = RemoveAt(@, j),
                   !.sent = Append(@, [type |-> "audio_complete",
                                       seg |-> S.readers[j].seg,
                                       data |-> S.readers[j].blob])]
    ELSE [S EXCEPT !.readers = RemoveAt(@, j)]

-----------------------------------------------------------------------------
(* Silence detector *)

\* The auto-stop branch of the poll (lines 366-376)
autoStop(S) ==
    LET r == S.mediaRecorderRef
        S1 == [S EXCEPT !.didAutoStopSegmentRef = TRUE,
                        !.appState = "processing",
                        !.captures[r].autoStops = @ + 1]
        S2 == IF Recording(S1) THEN StopRecorder(S1, r) ELSE S1
        m == S2.mediaStreamRef
    IN  IF m # 0 THEN [StopTracks(S2, m) EXCEPT !.mediaStreamRef = 0] ELSE S2

\* The callback of the setInterval of the silence effect; rms is the RMS of
\* the analyser window in thousandths.
poll(S, rms) ==
    IF S.appStateRef # "listening" THEN S
    ELSE IF ~Recording(S) THEN S
    ELSE IF rms > RMS_THRESHOLD THEN [S EXCEPT !.lastVoiceActivityAtRef = 0]
    ELSE IF S.lastVoiceActivityAtRef = -1 THEN [S EXCEPT !.lastVoiceActivityAtRef = 0]
    ELSE IF ~S.didAutoStopSegmentRef /\ S.lastVoiceActivityAtRef >= SILENCE_MS
    THEN autoStop(S)
    ELSE S

\* A state update is pending: the effects have not yet run for it.
CommitPending(S) ==
    \/ S.appStateRef # S.appState
    \/ S.effDeps # <<S.appState, S.inputAnalyser>>

\* React commits the pending state updates and runs the effects: the effect
\* of line 42, then the cleanup and the body of the silence effect if one of
\* its dependencies changed.
commit(S) ==
    LET deps == <<S.appState, S.inputAnalyser>>
        S1 == [S EXCEPT !.appStateRef = S.appState]
    IN  IF deps = S.effDeps THEN S1
        ELSE [S1 EXCEPT !.effDeps = deps,
                        !.interval = /\ S.appState = "listening"
                                     /\ S.inputAnalyser # 0
                                     /\ S.isConversationActiveRef]

-----------------------------------------------------------------------------
(* Message log.  A message is [id, type, text, timestamp, audioData]; its   *)
(* field gArr (history) is the rank of the event that created it.           *)
(* audioData is the sequence of the joined parts, empty when the message    *)
(* has no audioData (undefined, falsy); the                                 *)
(* parts are base64 strings, which hold no '|', so the joined string and    *)
(* the sequence of its parts determine each other.  id is the decimal       *)
(* string of Date.now(), kept as the number it writes.                      *)

NoAudio == <<>>

\* new Date().toLocaleTimeString('vi-VN', {hour, minute}) at the time t
TimeString(t) == t \div MinuteMs

appendMessageFirst(msgs, m) == <<m>> \o msgs

\* The updater of addMessage applied to the log msgs
appendMessage(msgs, m) == Append(msgs, m)

\* addMessage(type, text, audioData) for the event of rank arr
addMessage(S, type, text, audioData, arr) ==
    [S EXCEPT !.messages = appendMessage(@, [id |-> S.now,
                                             type |-> type,
                                             text |-> text,
                                             timestamp |-> TimeString(S.now),
                                             audioData |-> audioData,
                                             gArr |-> arr])]

BackfillOverwrite(msgs, combinedAudio) ==
    IF msgs # <<>> /\ msgs[Len(msgs)].type = "ai"
    THEN [msgs EXCEPT ![Len(msgs)].audioData = combinedAudio]
    ELSE msgs

\* The updater given to setMessages by playNextInQueue (lines 417-429)
Backfill(msgs, combinedAudio) ==
    IF msgs # <<>> /\ msgs[Len(msgs)].type = "ai"
    THEN IF msgs[Len(msgs)].audioData # NoAudio THEN msgs
         ELSE [msgs EXCEPT ![Len(msgs)].audioData = combinedAudio]
    ELSE msgs

\* The backfill of playNextInQueue on an empty queue (lines 415-431)
backfillAudio(S) ==
    IF S.currentAiAudioChunksRef # <<>>
    THEN [S EXCEPT !.messages = Backfill(@, S.currentAiAudioChunksRef),
                   !.currentAiAudioChunksRef = <<>>]
    ELSE S

\* reader.onloadend of the pending transcript reader j (lines 143-147)
transcriptLoaded(S, j) ==
    LET r == S.treaders[j]
        S1 == addMessage(S, "user", r.text, r.blob, r.gArr)
    IN  [S1 EXCEPT !.treaders = RemoveAt(@, j), !.userRecordedAudioRef = <<>>]
-----------------------------------------------------------------------------
(* Playback sequencer.  A fragment is the number of its arrival.  drains    *)
(* holds the invocations of playNextInQueue that are suspended: at          *)
(* pc = "resume" (await audioContext.resume(), nothing shifted yet) or at   *)
(* pc = "decode" (await decodeAudioData of the shifted fragment frag).      *)

\* playNextInQueue up to its first await; cs is the state in which an
\* AudioContext is created if there is none yet.
playNextInQueue(S, cs) ==
    IF S.audioQueueRef = <<>>
    THEN LET S1 == backfillAudio([S EXCEPT !.isPlayingRef = FALSE])
         IN  IF S1.appStateRef = "speaking"
             THEN IF S1.isConversationActiveRef
                  THEN startMediaRecorder(S1)
                  ELSE [S1 EXCEPT !.appState = "idle", !.emotion = "NEUTRAL"]
             ELSE S1
    ELSE LET S1 == [S EXCEPT !.isPlayingRef = TRUE,
                             !.appState = "speaking",
                             !.audioCtx = IF @ = "null" THEN cs ELSE @]
         IN  IF S1.audioCtx = "suspended"
             THEN [S1 EXCEPT !.drains = Append(@, [pc |-> "resume", frag |-> 0])]
             ELSE [S1 EXCEPT !.audioQueueRef = Tail(@),
                             !.drains = Append(@, [pc |-> "decode",
                                                   frag |-> Head(S1.audioQueueRef)])]

\* playNextInQueue resumed after await audioContext.resume() (drain i)
drainResumed(S, i) ==
    IF S.audioQueueRef = <<>>
    THEN [S EXCEPT !.drains = RemoveAt(@, i)]
    ELSE [S EXCEPT !.audioQueueRef = Tail(@),
                   !.drains[i] = [pc |-> "decode", frag |-> Head(S.audioQueueRef)]]

\* decodeAudioData of drain i resolved: the source is built and started
decoded(S, i) ==
    [S EXCEPT !.drains = RemoveAt(@, i),
              !.playing = @ \cup {S.drains[i].frag},
              !.gStarted = Append(@, S.drains[i].frag)]

\* decodeAudioData of drain i rejected: the catch block
decodeFailed(S, i, cs) ==
    playNextInQueue([S EXCEPT !.drains = RemoveAt(@, i)], cs)

\* source.onended of the playing fragment f
onended(S, f, cs) ==
    playNextInQueue([S EXCEPT !.playing = @ \ {f}], cs)

\* queueAudio(buffer) for the fragment f
queueAudio(S, f, cs) ==
    LET S1 == [S EXCEPT !.audioQueueRef = Append(@, f)]
    IN  IF ~S1.isPlayingRef THEN playNextInQueue(S1, cs) ELSE S1

\* The suspended audio context starts running: the promises of all pending
\* resume() calls resolve together, and the invocations awaiting them
\* continue one after the other, in the order of their calls.
AtResume(q) == {i \in 1 .. Len(q) : q[i].pc = "resume"}

First(I) == CHOOSE i \in I : \A j \in I : i <= j

RECURSIVE drainsResumed(_)
drainsResumed(S) ==
    IF AtResume(S.drains) = {} THEN S
    ELSE drainsResumed(drainResumed(S, First(AtResume(S.drains))))

RECURSIVE startsResumed(_)
startsResumed(S) ==
    IF AtResume(S.starts) = {} THEN S
    ELSE startsResumed(startResumed(S, First(AtResume(S.starts))))

contextResumed(S) ==
    startsResumed(drainsResumed([S EXCEPT !.audioCtx = "running"]))

\* The fragments handed to queueAudio and not started: those in the queue
\* and those being decoded.
NotStarted(S) ==
    {S.audioQueueRef[k] : k \in 1 .. Len(S.audioQueueRef)}
        \cup {S.drains[k].frag : k \in {j \in 1 .. Len(S.drains) : S.drains[j].pc = "decode"}}

-----------------------------------------------------------------------------
(* Protocol message router: handleWebSocketMessage, one operator per type *)

parseFailedAsError(S) == [S EXCEPT !.error = "default", !.appState = "idle"]

\* socket.onmessage with a payload that JSON.parse rejects: the catch block
\* logs, and handleWebSocketMessage is not called.
parseFailed(S) == S

(* A text is the sequence of its characters.  The texts of the model are   *)
(* written with "c" (typed in the chat box), "s" (a transcript), "r" (a     *)
(* reply) and the space.                                                    *)

TrimStartNone(t) == t

RECURSIVE TrimStart(_)
TrimStart(t) == IF t # <<>> /\ Head(t) = " " THEN TrimStart(Tail(t)) ELSE t

RECURSIVE TrimEnd(_)
TrimEnd(t) ==
    IF t # <<>> /\ t[Len(t)] = " " THEN TrimEnd(SubSeq(t, 1, Len(t) - 1)) ELSE t

TrimNone(t) == t

\* text.trim()
Trim(t) == TrimEnd(TrimStart(t))

\* case 'recording_started'
recording_started(S) ==
    [S EXCEPT !.appState = "listening", !.transcript = <<>>,
              !.userRecordedAudioRef = <<>>]

\* case 'transcript' with the non-empty text <<"s">>, not final
transcript_interim(S) == [S EXCEPT !.transcript = <<"s">>]

\* case 'transcript' with the non-empty text <<"s">> and isFinal
transcript_final(S) ==
    LET arr == S.gArrivals + 1
        S0 == [S EXCEPT !.gArrivals = arr, !.transcript = <<"s">>]
        S1 == IF S0.userRecordedAudioRef # <<>>
              THEN [S0 EXCEPT !.treaders = Append(@, [text |-> <<"s">>,
                                                      blob |-> S0.userRecordedAudioRef,
                                                      gArr |-> arr])]
              ELSE addMessage(S0, "user", <<"s">>, NoAudio, arr)
    IN  [S1 EXCEPT !.appState = "processing"]

\* case 'ai_response' with the non-empty text t; e is the emotion of the
\* frame, "none" if it has none
ai_response(S, t, e) ==
    LET arr == S.gArrivals + 1
        combinedAudio == IF S.currentAiAudioChunksRef # <<>>
                         THEN S.currentAiAudioChunksRef ELSE NoAudio
        S1 == addMessage([S EXCEPT !.gArrivals = arr], "ai", t, combinedAudio, arr)
    IN  [S1 EXCEPT !.currentAiAudioChunksRef = <<>>,
                   !.emotion = IF e # "none" THEN e ELSE @,
                   !.appState = "speaking"]

\* case 'audio' with non-empty data, the fragment f
audio(S, f, cs) ==
    queueAudio([S EXCEPT !.gNextFrag = f,
                         !.currentAiAudioChunksRef = Append(@, f)], f, cs)

\* case 'user_speaking'
user_speaking(S) ==
    LET S1 == [S EXCEPT !.audioQueueRef = <<>>, !.gPending = @ \cup NotStarted(S)]
    IN  IF S1.isPlayingRef
        THEN [S1 EXCEPT !.isPlayingRef = FALSE, !.appState = "listening"]
        ELSE S1

error_frameKeepState(S, m) ==
    [S EXCEPT !.error = IF m # "" THEN m ELSE "default"]

\* case 'error' / 'stt_error'; m is the message of the frame, "" if it has
\* none
error_frame(S, m) ==
    [S EXCEPT !.error = IF m # "" THEN m ELSE "default", !.appState = "idle"]

-----------------------------------------------------------------------------
(* The functions the hook returns to the UI *)

\* startRecording up to the first await of _startMediaRecorder
startRecording(S) ==
    startMediaRecorder([S EXCEPT !.isConversationActiveRef = TRUE,
                                 !.isConversationActive = TRUE,
                                 !.gStarts = @ + 1])

stopRecordingIdle(S) ==
    stopMediaRecorder([S EXCEPT !.isConversationActiveRef = FALSE,
                                !.isConversationActive = FALSE,
                                !.appState = "idle"])

\* stopRecording
stopRecording(S) ==
    stopMediaRecorder([S EXCEPT !.isConversationActiveRef = FALSE,
                                !.isConversationActive = FALSE])

sendChatMessageNoCheck(S, text) ==
    LET trimmed == Trim(text)
        arr == S.gArrivals + 1
        S0 == addMessage([stopMediaRecorder(S) EXCEPT !.gArrivals = arr,
                                                      !.transcript = <<>>],
                         "user", trimmed, NoAudio, arr)
        S1 == [S0 EXCEPT !.appState = "processing"]
    IN  IF trimmed = <<>> THEN S
        ELSE [S1 EXCEPT !.sent = Append(@, [type |-> "chat_message", seg |-> 0,
                                            data |-> trimmed])]

\* sendChatMessage(text)
sendChatMessage(S, text) ==
    LET trimmed == Trim(text)
        arr == S.gArrivals + 1
        S0 == addMessage([stopMediaRecorder(S) EXCEPT !.gArrivals = arr,
                                                      !.transcript = <<>>],
                         "user", trimmed, NoAudio, arr)
        S1 == [S0 EXCEPT !.appState = "processing"]
    IN  IF trimmed = <<>> THEN S
        ELSE IF S1.socketRef.rs = "OPEN"
        THEN [S1 EXCEPT !.sent = Append(@, [type |-> "chat_message", seg |-> 0,
                                            data |-> trimmed])]
        ELSE [S1 EXCEPT !.error = "notConnected", !.appState = "idle"]

\* updateSettings(newSettings) with the settings object number s
updateSettings(S, s) ==
    LET S1 == [S EXCEPT !.currentSettingsRef = s]
    IN  IF S1.socketRef.rs = "OPEN"
        THEN [S1 EXCEPT !.sent = Append(@, [type |-> "update_settings", seg |-> 0,
                                            data |-> <<s>>])]
        ELSE S1

-----------------------------------------------------------------------------
(* Actions of the connection manager *)

\* The connection effect runs (mount, or a re-run after its cleanup).
Mount ==
    /\ ~mounted
    /\ gMounts < MaxMounts
    /\ Set(connect([Begin EXCEPT !.mounted = TRUE, !.gMounts = @ + 1]))

\* The connection effect is cleaned up (unmount).
Unmount ==
    /\ mounted
    /\ Set(cleanup(Begin))

\* The connection of socket h is established: the open event.
SocketOpens ==
    \E h \in Handles(Cur) :
        /\ Sock(Cur, h).rs = "CONNECTING"
        /\ LET s == [Sock(Cur, h) EXCEPT !.rs = "OPEN"]
           IN  Set(onopen([PutSock(Begin, h, s) EXCEPT !.gCloses = 0], s))

\* The connection of socket h ends: readyState becomes CLOSED, then the
\* error event (if the connection failed) and the close event are fired.
\* At most n reconnect attempts are explored.
SocketClosesWithin(n) ==
    \E h \in Handles(Cur), failed \in BOOLEAN :
        /\ Sock(Cur, h).rs \in {"CONNECTING", "OPEN", "CLOSING"}
        /\ Sock(Cur, h).rs = "CONNECTING" => failed
        /\ reconnectAttemptRef < n
        /\ LET s == [Sock(Cur, h) EXCEPT !.rs = "CLOSED"]
               S0 == [PutSock(Begin, h, s) EXCEPT
                         !.gCloses = IF s.teardown THEN @ ELSE @ + 1]
               S1 == IF failed THEN onerror(S0, s) ELSE S0
           IN  Set(IF s.onclose THEN onclose(S1, s) ELSE S1)

SocketCloses == SocketClosesWithin(MaxAttempt)

SocketDrops == SocketClosesWithin(MaxDrops)

\* A reconnect timer fires: if (isMounted) connect()
TimerFires ==
    \E i \in 1 .. Len(timers) :
        /\ LET t == timers[i]
               S1 == [Begin EXCEPT !.timers = RemoveAt(@, i)]
           IN  Set(IF t.isMounted THEN connect(S1) ELSE S1)

-----------------------------------------------------------------------------
(* Inbound frames.  A frame is delivered by a socket that is open. *)

CanReceive == \E h \in Handles(Cur) : Sock(Cur, h).rs = "OPEN"

CtxStates == {"suspended", "running"}

\* At most n fragments are explored.
FrameAudioWithin(n) ==
    /\ CanReceive
    /\ gNextFrag < n
    /\ \E cs \in CtxStates : Set(audio(Begin, gNextFrag + 1, cs))

FrameAudio == FrameAudioWithin(MaxFrags)

FrameUserSpeaking ==
    /\ CanReceive
    /\ Set(user_speaking(Begin))

\* The messages created or being created
NMsgs == Len(messages) + Len(treaders)

\* An ai_response frame with a text of T
FrameAiResponseOf(T) ==
    /\ CanReceive
    /\ NMsgs < MaxMsgs
    /\ \E t \in T, e \in {"none", "HAPPY"} : Set(ai_response(Begin, t, e))

FrameAiResponse == FrameAiResponseOf({<<"r">>})

FrameRecordingStarted ==
    /\ CanReceive
    /\ Set(recording_started(Begin))

FrameTranscriptFinal ==
    /\ CanReceive
    /\ NMsgs < MaxMsgs
    /\ Set(transcript_final(Begin))

\* An error frame with a message of M
FrameErrorOf(M) ==
    /\ CanReceive
    /\ \E m \in M : Set(error_frame(Begin, m))

FrameError == FrameErrorOf({"server"})

FrameTranscriptInterim ==
    /\ CanReceive
    /\ Set(transcript_interim(Begin))

-----------------------------------------------------------------------------
(* Completions of the playback sequencer *)

ContextResumes ==
    /\ audioCtx = "suspended"
    /\ AtResume(drains) \cup AtResume(starts) # {}
    /\ Set(contextResumed(Begin))

DecodeResolves ==
    \E i \in 1 .. Len(drains) :
        /\ drains[i].pc = "decode"
        /\ Set(decoded(Begin, i))

DecodeRejects ==
    \E i \in 1 .. Len(drains), cs \in CtxStates :
        /\ drains[i].pc = "decode"
        /\ Set(decodeFailed(Begin, i, cs))

SourceEnds ==
    \E f \in playing, cs \in CtxStates :
        /\ Set(onended(Begin, f, cs))

-----------------------------------------------------------------------------
(* Calls of the UI *)

StartRecording ==
    /\ gStarts < MaxStarts
    /\ Set(startRecording(Begin))

StopRecording ==
    /\ Set(stopRecording(Begin))

\* The chat messages submitted
NChats ==
    Cardinality({k \in 1 .. Len(messages) :
                   \E i \in 1 .. Len(messages[k].text) : messages[k].text[i] = "c"})

\* sendChatMessage with a text of T
SendChatMessageOf(T) ==
    /\ NChats < MaxChats
    /\ NMsgs < MaxMsgs
    /\ gChatCalls < MaxChatCalls
    /\ \E text \in T :
          Set([sendChatMessage(Begin, text) EXCEPT !.gChatCalls = @ + 1])

SendChatMessage == SendChatMessageOf({<<"c">>})

-----------------------------------------------------------------------------
(* Completions and events of the capture pipeline *)

GumResolves ==
    \E i \in 1 .. Len(starts), cs \in CtxStates :
        /\ starts[i].pc = "gum"
        /\ Set(gumResolved(Begin, i, cs))

GumRejects ==
    \E i \in 1 .. Len(starts) :
        /\ starts[i].pc = "gum"
        /\ Set(gumRejected(Begin, i))

\* A timeslice of a recording recorder ends with a non-empty chunk.
\* At most n non-empty chunks are explored.
DataAvailableWithin(n) ==
    \E c \in 1 .. Len(captures) :
        /\ captures[c].rec = "recording"
        /\ gNextChunk < n
        /\ Set(ondataavailable([Begin EXCEPT !.gNextChunk = @ + 1], c, gNextChunk + 1))

DataAvailable == DataAvailableWithin(MaxChunks)

\* A stopped recorder dispatches its final dataavailable (its chunk may be
\* empty) and then its stop event.
RecorderStopsWithin(n) ==
    \E c \in 1 .. Len(captures), last \in BOOLEAN :
        /\ captures[c].rec = "inactive"
        /\ last => gNextChunk < n
        /\ LET S0 == [Begin EXCEPT !.captures[c].rec = "done"]
               S1 == IF last
                     THEN ondataavailable([S0 EXCEPT !.gNextChunk = @ + 1], c,
                                          gNextChunk + 1)
                     ELSE S0
           IN  Set(onstop(S1, c))

RecorderStops == RecorderStopsWithin(MaxChunks)

ReaderLoads ==
    \E j \in 1 .. Len(readers) :
        /\ Set(onloadend(Begin, j))

RmsValues == {0, RMS_THRESHOLD, RMS_THRESHOLD + 10}

SilencePoll ==
    /\ interval
    /\ \E rms \in RmsValues : Set(poll(Begin, rms))

\* TickMs pass.  The effects of a pending state update run before.
Tick ==
    /\ ~CommitPending(Cur)
    /\ lastVoiceActivityAtRef # -1
    /\ lastVoiceActivityAtRef < SILENCE_MS
    /\ Set([Begin EXCEPT !.lastVoiceActivityAtRef = @ + TickMs])

Commit ==
    /\ CommitPending(Cur)
    /\ Set(commit(Begin))


-----------------------------------------------------------------------------
(* Message log *)

TranscriptReaderLoads ==
    \E j \in 1 .. Len(treaders) :
        /\ Set(transcriptLoaded(Begin, j))

\* A millisecond of Date.now() passes.
ClockTicks ==
    /\ now < MaxNow
    /\ Set([Begin EXCEPT !.now = @ + 1])

-----------------------------------------------------------------------------
(* Malformed frames, chat and settings *)

FrameMalformed ==
    /\ CanReceive
    /\ Len(gDrops) < MaxMalformed
    /\ Set(parseFailed([Begin EXCEPT !.gDrops = Append(@, gArrivals)]))

\* The texts typed in the chat box
ChatTexts ==
    {<<>>, <<" ">>, <<" ", " ">>, <<"c">>, <<" ", "c">>, <<"c", " ">>,
     <<" ", "c", " ">>, <<"c", " ", "c">>}

\* The texts of the replies
ReplyTexts == {<<"r">>, <<"r", "r">>}

\* The messages of the error frames ("": the frame has none)
ErrorMessages == {"", "server"}

ChatSubmitted == SendChatMessageOf(ChatTexts)

FrameChatReply == FrameAiResponseOf(ReplyTexts)

FrameServerError == FrameErrorOf(ErrorMessages)

NSettings == Cardinality({k \in 1 .. Len(sent) : sent[k].type = "update_settings"})

\* The settings objects the UI passes, each a new object
SettingsValues == 1 .. MaxSettings

UpdateSettings ==
    /\ NSettings < MaxSettings
    /\ \E s \in SettingsValues : s > currentSettingsRef /\ Set(updateSettings(Begin, s))
-----------------------------------------------------------------------------

Init ==
    /\ mounted = FALSE
    /\ socketRef = NoSocket
    /\ stale = <<>>
    /\ isConnectingRef = FALSE
    /\ reconnectAttemptRef = 0
    /\ reconnectTimeoutRef = FALSE
    /\ timers = <<>>
    /\ isConnected = FALSE
    /\ error = "null"
    /\ appState = "idle"
    /\ appStateRef = "idle"
    /\ emotion = "NEUTRAL"
    /\ transcript = <<>>
    /\ isConversationActiveRef = FALSE
    /\ isConversationActive = FALSE
    /\ currentSettingsRef = 0
    /\ audioQueueRef = <<>>
    /\ isPlayingRef = FALSE
    /\ audioCtx = "null"
    /\ drains = <<>>
    /\ playing = {}
    /\ captures = <<>>
    /\ mediaRecorderRef = 0
    /\ mediaStreamRef = 0
    /\ starts = <<>>
    /\ inputAnalyser = 0
    /\ lastVoiceActivityAtRef = -1
    /\ didAutoStopSegmentRef = FALSE
    /\ interval = FALSE
    /\ effDeps = <<"idle", 0>>
    /\ userRecordedAudioRef = <<>>
    /\ readers = <<>>
    /\ sent = <<>>
    /\ messages = <<>>
    /\ currentAiAudioChunksRef = <<>>
    /\ treaders = <<>>
    /\ now = 0
    /\ gMounts = 0
    /\ gCloses = 0
    /\ gCreated = FALSE
    /\ gScheduled = FALSE
    /\ gNextFrag = 0
    /\ gStarted = <<>>
    /\ gPending = {}
    /\ gNextChunk = 0
    /\ gStarts = 0
    /\ gArrivals = 0
    /\ gDrops = <<>>
    /\ gChatCalls = 0

-----------------------------------------------------------------------------
(* Specifications *)

\* The connection manager alone: no other handler writes one of its cells.
NextConn == Mount \/ Unmount \/ SocketOpens \/ SocketCloses \/ TimerFires

SpecConn == Init /\ [][NextConn]_vars

\* The playback sequencer fed by an open connection.
NextPlay ==
    \/ Mount \/ SocketOpens
    \/ FrameAudio \/ FrameUserSpeaking \/ FrameAiResponse
    \/ ContextResumes \/ DecodeResolves \/ DecodeRejects \/ SourceEnds
    \/ Commit

SpecPlay == Init /\ [][NextPlay]_vars

\* The capture pipeline: the UI's calls, the recorder's events, the silence
\* detector and a connection that may drop.  Frames and playback write none
\* of captures, readers and sent.
NextCapture ==
    \/ Mount \/ SocketOpens \/ SocketDrops
    \/ StartRecording \/ StopRecording \/ SendChatMessage
    \/ GumResolves \/ GumRejects \/ ContextResumes
    \/ DataAvailable \/ RecorderStops \/ ReaderLoads
    \/ SilencePoll \/ Tick \/ Commit

SpecCapture == Init /\ [][NextCapture]_vars

\* The silence detector: the UI's calls, the frames that write appState, the
\* start of a capture, the polls and the commits of React.
NextSilence ==
    \/ Mount \/ SocketOpens
    \/ FrameRecordingStarted \/ FrameTranscriptFinal \/ FrameError
    \/ StartRecording \/ StopRecording \/ SendChatMessage
    \/ GumResolves \/ GumRejects \/ ContextResumes
    \/ SilencePoll \/ Tick \/ Commit

SpecSilence == Init /\ [][NextSilence]_vars

\* A turn of the conversation: the reply is played and the drain of the
\* playback queue resumes the capture.
FrameTurnAudio == FrameAudioWithin(MaxTurnFrags)

NextTurn ==
    \/ Mount \/ SocketOpens
    \/ FrameTurnAudio \/ FrameAiResponse
    \/ ContextResumes \/ DecodeResolves \/ DecodeRejects \/ SourceEnds
    \/ StartRecording \/ StopRecording
    \/ GumResolves \/ GumRejects
    \/ Commit

SpecTurn == Init /\ [][NextTurn]_vars

\* The reply of the assistant: its audio fragments, its ai_response frame
\* and the drains of the playback queue.
NextReply ==
    \/ Mount \/ SocketOpens
    \/ FrameAudio \/ FrameAiResponse
    \/ ContextResumes \/ DecodeResolves \/ DecodeRejects \/ SourceEnds
    \/ Commit

SpecReply == Init /\ [][NextReply]_vars

\* The message log: every handler that writes messages, with the capture
\* that fills userRecordedAudioRef and the clock that gives the ids.
FrameLogAudio == FrameAudioWithin(MaxLogFrags)

LogDataAvailable == DataAvailableWithin(MaxLogChunks)

NextLog ==
    \/ Mount \/ SocketOpens
    \/ FrameLogAudio \/ FrameAiResponse \/ FrameTranscriptFinal
    \/ SendChatMessage
    \/ ContextResumes \/ DecodeResolves \/ DecodeRejects \/ SourceEnds
    \/ StartRecording \/ GumResolves \/ LogDataAvailable
    \/ TranscriptReaderLoads \/ ClockTicks \/ Commit

SpecLog == Init /\ [][NextLog]_vars

\* The chat: submissions, replies, error frames and malformed frames, next
\* to a capture.
NextChat ==
    \/ Mount \/ SocketOpens
    \/ ChatSubmitted \/ FrameChatReply \/ FrameServerError
    \/ FrameTranscriptInterim \/ FrameMalformed
    \/ StartRecording \/ GumResolves \/ ContextResumes
    \/ Commit

SpecChat == Init /\ [][NextChat]_vars

\* The whole session on one run of the connection effect.
Next ==
    \/ Mount \/ SocketOpens \/ SocketDrops \/ TimerFires
    \/ FrameAudio \/ FrameUserSpeaking \/ FrameAiResponse
    \/ FrameRecordingStarted \/ FrameTranscriptFinal \/ FrameError
    \/ ContextResumes \/ DecodeResolves \/ DecodeRejects \/ SourceEnds
    \/ StartRecording \/ StopRecording \/ SendChatMessage
    \/ GumResolves \/ GumRejects
    \/ DataAvailable \/ RecorderStops \/ ReaderLoads
    \/ SilencePoll \/ Tick \/ Commit
    \/ TranscriptReaderLoads \/ ClockTicks
    \/ FrameTranscriptInterim \/ FrameMalformed \/ UpdateSettings

Spec == Init /\ [][Next]_vars


\* The buffers of a turn: the captures that fill userRecordedAudioRef, the
\* frames that empty it and the user messages that take its content.
\* startRecording called when no start is in progress and every earlier
\* segment has ended: the segments follow one another.
StartNextSegment ==
    /\ starts = <<>>
    /\ \A c \in 1 .. Len(captures) : captures[c].rec = "done"
    /\ StartRecording

NextBuffers ==
    \/ Mount \/ SocketOpens
    \/ StartNextSegment \/ StopRecording
    \/ GumResolves \/ ContextResumes
    \/ DataAvailable \/ RecorderStops \/ ReaderLoads
    \/ FrameRecordingStarted \/ FrameTranscriptFinal \/ TranscriptReaderLoads
    \/ Commit

SpecBuffers == Init /\ [][NextBuffers]_vars

\* A session on a connection that drops and is reopened by the reconnect
\* timer.
NextReconnect ==
    \/ Mount \/ SocketOpens \/ SocketDrops \/ TimerFires
    \/ StartRecording \/ GumResolves \/ ContextResumes
    \/ FrameLogAudio \/ FrameAiResponse \/ FrameTranscriptInterim
    \/ Commit

SpecReconnect == Init /\ [][NextReconnect]_vars

\* The connection manager with a reconnect timer that fires when it is due.
SpecConnLive == SpecConn /\ WF_vars(TimerFires)

\* The settings and the connection: the connection is opened, may close and
\* is reopened by the reconnect timer; a connecting socket eventually opens
\* or fails, and a timer that is set fires.
NextSettings ==
    \/ Mount \/ SocketOpens \/ SocketCloses \/ TimerFires
    \/ UpdateSettings

SpecSettings ==
    Init /\ [][NextSettings]_vars /\ WF_vars(SocketOpens) /\ WF_vars(TimerFires)

\* Chat submissions during a capture: the only call that stops a recorder is
\* sendChatMessage.
NextChatStop ==
    \/ Mount \/ SocketOpens
    \/ StartRecording \/ GumResolves \/ ContextResumes
    \/ DataAvailable \/ RecorderStops \/ ReaderLoads
    \/ SendChatMessage
    \/ Commit

SpecChatStop == Init /\ [][NextChatStop]_vars

\* The reply with its asynchronous steps carried out: a suspended audio
\* context is resumed, a decode resolves or rejects, a started source ends
\* and React commits a pending update.  The server may stop sending frames
\* at any time.
SpecReplyLive ==
    /\ SpecReply
    /\ WF_vars(ContextResumes)
    /\ WF_vars(DecodeResolves \/ DecodeRejects)
    /\ WF_vars(SourceEnds)
    /\ WF_vars(Commit)
-----------------------------------------------------------------------------
(* Claims about the connection manager, checked under SpecConn.  No other   *)
(* handler of the hook writes a cell of the connection manager.             *)

\* C8: the reconnect timer scheduled by the N-th consecutive unexpected close
\* since the last successful open has delay min(5000, 500*N) ms, and while a
\* socket is open the attempt counter is 0 (so the next close retries after
\* 500 ms).
C8_Backoff ==
    /\ \A i \in 1 .. Len(timers) :
          /\ gCloses >= 1
          /\ timers[i].delayMs = IF 500 * gCloses < 5000 THEN 500 * gCloses ELSE 5000
    /\ socketRef.rs = "OPEN" => reconnectAttemptRef = 0 /\ gCloses = 0

\* A timer at the cap is pending after more than ten consecutive closes.
C8_Witness ==
    /\ Len(timers) = 1
    /\ gCloses = 11
    /\ timers[1].delayMs = 5000

\* C9: at most one socket is connecting or open, and a socket is only ever
\* created in a state where no socket is connecting or open (a connect()
\* that runs while an attempt is in flight creates none).
C9_OneAttempt ==
    /\ [](NLive(Cur) <= 1)
    /\ [][gCreated' => NLive(Cur) = 0]_vars

\* A remount created a socket while the socket of the previous effect
\* instance is still closing.
C9_Witness ==
    /\ gCreated
    /\ gMounts >= 2
    /\ socketRef.rs = "CONNECTING"
    /\ Len(stale) >= 1
    /\ stale[1].rs = "CLOSING"

\* C10: once the cleanup of the connection effect has run, no reconnect timer
\* is pending, no socket is connecting or open, and as long as the effect is
\* not run again no step schedules a reconnect or creates a socket.
C10_TeardownFinal ==
    /\ [](~mounted => Len(timers) = 0 /\ NLive(Cur) = 0)
    /\ [][~mounted' => ~gCreated' /\ ~gScheduled']_vars

\* The cleanup has cancelled a pending reconnect timer (the ref still holds
\* its id), the socket whose close scheduled it is closed, and a socket of
\* an earlier effect instance is still closing.
C10_Witness ==
    /\ ~mounted
    /\ reconnectTimeoutRef
    /\ reconnectAttemptRef >= 1
    /\ socketRef.rs = "CLOSED"
    /\ Len(stale) >= 1

\* The re-entrancy guard of connect() is never hit.
ConnectNeverReentered ==
    /\ ~mounted => ~isConnectingRef
    /\ (\E i \in 1 .. Len(timers) : timers[i].isMounted) => ~isConnectingRef


\* C33: while the effect is mounted, an unexpected close of the current
\* socket is eventually followed by a new connection attempt: the reconnect
\* timer fires and connect() creates a new socket.
C33_ReconnectEventually ==
    (mounted /\ socketRef.rs = "CLOSED") ~> (~mounted \/ socketRef.rs = "CONNECTING")

\* The reconnect timer has created a socket after two consecutive closes.
C33_Witness ==
    /\ mounted
    /\ gCreated
    /\ gCloses = 2
    /\ reconnectAttemptRef = 2
    /\ socketRef.rs = "CONNECTING"
    /\ timers = <<>>

\* C34: at most one reconnect timer is pending, and while isConnected is
\* true no reconnect timer is pending and the attempt counter is 0.
C34_OneTimer ==
    /\ Len(timers) <= 1
    /\ isConnected => timers = <<>> /\ reconnectAttemptRef = 0

\* The socket of a second run of the effect is open while the socket of the
\* first run is still closing: no timer is pending.
C34_Witness ==
    /\ isConnected
    /\ socketRef.rs = "OPEN"
    /\ gMounts = 2
    /\ Len(stale) = 1
    /\ timers = <<>>
    /\ reconnectAttemptRef = 0
-----------------------------------------------------------------------------
(* Claims about the playback sequencer, checked under SpecPlay *)

\* C1: fragments start playing in arrival order, and a fragment is never
\* started while an earlier one is still playing.
C1_PlaybackFifo ==
    /\ Cardinality(playing) <= 1
    /\ \A j, k \in 1 .. Len(gStarted) : j < k => gStarted[j] < gStarted[k]

\* C2: at most one fragment is decoding or playing and at most one drain
\* chain of playNextInQueue is active (a suspended invocation, or a playing
\* source whose onended continues the chain).
C2_OneNowPlaying ==
    Cardinality(playing) + Len(drains) <= 1

\* C3: a user_speaking frame empties the playback queue, and no fragment
\* that was enqueued and not yet started when a user_speaking frame was
\* processed is ever started.
C3_BargeInClearsPending ==
    /\ [][FrameUserSpeaking => audioQueueRef' = <<>>]_vars
    /\ [](\A k \in 1 .. Len(gStarted) : gStarted[k] \notin gPending)

\* C4: a user_speaking frame processed while a fragment is playing stops
\* that playback and sets appState to listening.
C4_BargeInStopsPlayback ==
    [][FrameUserSpeaking /\ playing # {}
          => playing' = {} /\ appState' = "listening"]_vars

-----------------------------------------------------------------------------
(* Capture pipeline and silence detector: properties *)

\* The audio_complete frames sent for the segment c
FramesOf(c) ==
    {k \in 1 .. Len(sent) : sent[k].type = "audio_complete" /\ sent[k].seg = c}

\* The encodings of the segment c that are still in progress
ReadersOf(c) == {j \in 1 .. Len(readers) : readers[j].seg = c}

\* The chunks of s are in capture order.
InCaptureOrder(s) == \A j, k \in 1 .. Len(s) : j < k => s[j] < s[k]

\* C5 (as the code has it): a capture segment yields at most one
\* audio_complete frame; a frame is sent only after the recorder of its
\* segment dispatched its stop event, and it holds all the chunks of that
\* segment, in capture order, and no chunk of another segment; the frame is
\* sent when the encoding of the segment completes if and only if the socket
\* is open at that moment, and is dropped otherwise.
C5_SegmentFrame ==
    /\ [](\A c \in 1 .. Len(captures) :
            /\ Cardinality(FramesOf(c)) + Cardinality(ReadersOf(c)) <= 1
            /\ InCaptureOrder(captures[c].chunks)
            /\ \A d \in 1 .. Len(captures) : \A j \in 1 .. Len(captures[c].chunks) :
                 \A k \in 1 .. Len(captures[d].chunks) :
                    captures[c].chunks[j] = captures[d].chunks[k] => c = d
            /\ \A k \in FramesOf(c) :
                 /\ captures[c].rec = "done"
                 /\ sent[k].data = captures[c].chunks
                 /\ sent[k].data # <<>>)
    /\ [][Len(readers') < Len(readers) =>
            IF socketRef.rs = "OPEN"
            THEN /\ Len(sent') = Len(sent) + 1
                 /\ sent'[Len(sent')].type = "audio_complete"
            ELSE sent' = sent]_vars

\* Two segments, stopped in different ways, each sent as one frame
C5_Witness ==
    /\ Len(captures) = 2
    /\ FramesOf(1) # {} /\ FramesOf(2) # {}
    /\ Len(captures[1].chunks) + Len(captures[2].chunks) = MaxChunks
    /\ captures[1].autoStops + captures[2].autoStops = 1

\* C5 (as stated): every segment that captured a chunk and whose recorder
\* stopped is transmitted as exactly one audio_complete frame once its
\* encoding completed.
C5_ExactlyOneFrame ==
    \A c \in 1 .. Len(captures) :
        /\ captures[c].rec = "done"
        /\ captures[c].chunks # <<>>
        /\ ReadersOf(c) = {}
        => Cardinality(FramesOf(c)) = 1

\* A poll that finds the window silent
SilentPoll ==
    /\ interval
    /\ \E rms \in {r \in RmsValues : r <= RMS_THRESHOLD} : Set(poll(Begin, rms))

\* Some segment is auto-stopped by this step.
AutoStopFires ==
    \E c \in 1 .. Len(captures) : captures'[c].autoStops > captures[c].autoStops

\* C6: no segment is auto-stopped twice; a silent poll made while the state
\* is listening, the recorder records, the guard is down and the last voice
\* activity is at least 1500 ms old fires the auto-stop (the state becomes
\* processing, the recorder stops, the tracks of the device are released);
\* an auto-stop fires only on such a poll; the guard is lowered and the
\* silence clock restarted when the recorder of the next segment is installed.
C6_AutoStopOnce ==
    /\ [](\A c \in 1 .. Len(captures) : captures[c].autoStops <= 1)
    /\ [][/\ SilentPoll
          /\ appState = "listening"
          /\ Recording(Cur)
          /\ ~didAutoStopSegmentRef
          /\ lastVoiceActivityAtRef >= SILENCE_MS
          => /\ captures'[mediaRecorderRef].autoStops = 1
             /\ appState' = "processing"
             /\ didAutoStopSegmentRef'
             /\ captures'[mediaRecorderRef].rec = "inactive"
             /\ mediaStreamRef' = 0
             /\ mediaStreamRef # 0 => ~captures'[mediaStreamRef].live]_vars
    /\ [][AutoStopFires =>
            /\ lastVoiceActivityAtRef >= SILENCE_MS
            /\ ~didAutoStopSegmentRef
            /\ Recording(Cur)]_vars
    /\ [][mediaRecorderRef' # mediaRecorderRef =>
            /\ ~didAutoStopSegmentRef'
            /\ lastVoiceActivityAtRef' = 0]_vars

\* Both segments were auto-stopped: the guard of the first did not block the
\* second.
C6_Witness ==
    /\ Len(captures) = 2
    /\ captures[1].autoStops = 1
    /\ captures[2].autoStops = 1
    /\ appState = "processing"
    /\ didAutoStopSegmentRef

\* C7: an auto-stop fires only in a state where appState is listening and the
\* conversation is flagged active.
C7_DetectorOnlyWhileListening ==
    [][AutoStopFires => appState = "listening" /\ isConversationActiveRef]_vars
-----------------------------------------------------------------------------
(* Ownership of the input device and device failures: properties *)

\* The acquired streams whose tracks are live
LiveStreams == {c \in 1 .. Len(captures) : captures[c].live}

\* The recorders that are recording
ActiveRecorders == {c \in 1 .. Len(captures) : captures[c].rec = "recording"}

\* C11: at most one acquired microphone stream has live tracks and at most
\* one recorder is recording, and a stream with live tracks is the one the
\* hook still holds (so that a stop releases it).
C11_OneCapture ==
    /\ Cardinality(LiveStreams) <= 1
    /\ Cardinality(ActiveRecorders) <= 1
    /\ \A c \in LiveStreams : mediaStreamRef = c

\* C12: when getUserMedia rejects, a user-visible error is set and the
\* failed start leaves appState as it was (it does not move it to
\* listening).
C12_DeviceFailureSurfaced ==
    [][GumRejects => error' = "mic" /\ appState' = appState]_vars

\* A user start from idle failed: the error is shown and no capture exists.
C12_Witness ==
    /\ error = "mic"
    /\ gStarts >= 1
    /\ Len(captures) = 0
    /\ Len(starts) = 0
    /\ appState = "idle"

\* C14: when getUserMedia rejects, the internal conversation flag and the
\* isConversationActive value given to the UI are both false afterwards.
C14_FailureClearsConversation ==
    [][GumRejects => ~isConversationActiveRef' /\ ~isConversationActive']_vars

\* C13: when getUserMedia rejects, appState is idle afterwards, whatever the
\* state the start was requested from.
C13_FailureResetsToIdle ==
    [][GumRejects => appState' = "idle"]_vars

\* The drain of the playback queue finds the queue empty: the call of
\* playNextInQueue made by source.onended or by the catch of a failed decode.
DrainFindsEmpty == (SourceEnds \/ DecodeRejects) /\ audioQueueRef = <<>>

\* C15: when the drain finds the queue empty, (1) with appState speaking and
\* the conversation active the capture is resumed (a start is issued, or the
\* recorder already records) and appState does not become idle; (2) with
\* appState speaking and the conversation not active appState becomes idle
\* and emotion NEUTRAL; (3) with appState not speaking the drain changes
\* neither appState nor emotion.
C15_DrainEmpty ==
    [][DrainFindsEmpty =>
         IF appState = "speaking"
         THEN IF isConversationActiveRef
              THEN /\ appState' # "idle"
                   /\ Len(starts') = Len(starts) + 1 \/ Recording(Cur)
              ELSE appState' = "idle" /\ emotion' = "NEUTRAL"
         ELSE appState' = appState /\ emotion' = emotion]_vars
-----------------------------------------------------------------------------
(* Message log: properties *)

\* Nothing is queued, being decoded or playing.
Drained ==
    /\ audioQueueRef = <<>>
    /\ drains = <<>>
    /\ playing = {}
    /\ ~isPlayingRef

\* The fragments received, in the order of their arrival
Received == [k \in 1 .. gNextFrag |-> k]

\* C16: once the playback of the reply has drained, the AI message of the
\* reply carries all the fragments received for it, in arrival order (one
\* reply: every fragment received belongs to it).
C16_ReplyAudioComplete ==
    /\ Len(messages) = 1
    /\ gNextFrag >= 1
    /\ Drained
    => messages[1].audioData = Received

\* The values a backfill may carry
AudioValues == {<<1>>, <<2>>, <<1, 2>>}

\* C17: no step changes the audioData of a message that has audioData, and
\* a backfill applied after a backfill leaves the log as the first left it.
C17_AttachIdempotent ==
    /\ [][\A k \in 1 .. Len(messages) :
            messages[k].audioData # NoAudio
            => messages'[k].audioData = messages[k].audioData]_vars
    /\ [](\A a, b \in AudioValues :
            Backfill(Backfill(messages, a), b) = Backfill(messages, a))

\* The reply got the audio <<1>> from its ai_response; the drain that
\* followed fragment 2 applied the backfill to it and left it as it was.
C17_Witness ==
    /\ Len(messages) = 1
    /\ messages[1].audioData = <<1>>
    /\ gNextFrag >= 2
    /\ currentAiAudioChunksRef = <<>>
    /\ Drained

\* C18: in every step the log keeps its messages, in their places, with
\* their id, type, text and timestamp; the audioData of a message changes
\* only from none to a value.
C18_AppendOnly ==
    [][/\ Len(messages') >= Len(messages)
       /\ \A k \in 1 .. Len(messages) :
            /\ messages'[k].id = messages[k].id
            /\ messages'[k].type = messages[k].type
            /\ messages'[k].text = messages[k].text
            /\ messages'[k].timestamp = messages[k].timestamp
            /\ \/ messages'[k].audioData = messages[k].audioData
               \/ messages[k].audioData = NoAudio]_vars

\* A user message with its recorded audio, created in one millisecond,
\* followed by an AI message with audio created in the next.
C18_Witness ==
    /\ Len(messages) = 2
    /\ messages[1].type = "user" /\ messages[1].audioData # NoAudio
    /\ messages[2].type = "ai" /\ messages[2].audioData # NoAudio
    /\ messages[1].id < messages[2].id

\* C19: the messages are in the log in the order in which the events that
\* created them arrived.
C19_ArrivalOrder ==
    \A j, k \in 1 .. Len(messages) :
        j < k => messages[j].gArr < messages[k].gArr

\* C20: no two messages of the log have the same id.
C20_UniqueIds ==
    \A j, k \in 1 .. Len(messages) :
        j # k => messages[j].id # messages[k].id
-----------------------------------------------------------------------------
(* Chat, error frames and malformed frames: properties *)

\* The text has a character that is not a space.
NonBlank(text) == \E i \in 1 .. Len(text) : text[i] # " "

Spaces(n) == [i \in 1 .. n |-> " "]

\* r is text without its leading and trailing spaces.
IsTrimOf(r, text) ==
    /\ r # <<>> => r[1] # " " /\ r[Len(r)] # " "
    /\ \E i, j \in 0 .. Len(text) : text = Spaces(i) \o r \o Spaces(j)

\* The step is a call of sendChatMessage(text).
ChatStep(text) == Set([sendChatMessage(Begin, text) EXCEPT !.gChatCalls = @ + 1])

\* The step is the processing of an ai_response frame with text t, emotion e.
ReplyStep(t, e) == Set(ai_response(Begin, t, e))

\* The step is the processing of an error frame with the message m.
ErrorStep(m) == Set(error_frame(Begin, m))

\* C21: sendChatMessage(text) with a non-blank text on an open connection
\* appends a user message with the trimmed text, sets appState to
\* processing and sends one chat_message frame with that text; an
\* ai_response frame with the text t and the emotion e appends an AI message
\* with the text t, sets emotion to e and appState to speaking.
C21_ChatRoundTrip ==
    /\ [][\A text \in ChatTexts :
            NonBlank(text) /\ socketRef.rs = "OPEN" /\ ChatStep(text)
            => /\ Len(messages') = Len(messages) + 1
               /\ SubSeq(messages', 1, Len(messages)) = messages
               /\ messages'[Len(messages')].type = "user"
               /\ IsTrimOf(messages'[Len(messages')].text, text)
               /\ appState' = "processing"
               /\ Len(sent') = Len(sent) + 1
               /\ SubSeq(sent', 1, Len(sent)) = sent
               /\ sent'[Len(sent')].type = "chat_message"
               /\ sent'[Len(sent')].data = messages'[Len(messages')].text]_vars
    /\ [][\A t \in ReplyTexts :
            ReplyStep(t, "HAPPY")
            => /\ Len(messages') = Len(messages) + 1
               /\ messages'[Len(messages')].type = "ai"
               /\ messages'[Len(messages')].text = t
               /\ emotion' = "HAPPY"
               /\ appState' = "speaking"]_vars

\* The round trip: " c c"-like text sent trimmed, then the reply "rr".
C21_Witness ==
    /\ Len(messages) = 2
    /\ messages[1].type = "user" /\ messages[1].text = <<"c", " ", "c">>
    /\ messages[2].type = "ai" /\ messages[2].text = <<"r", "r">>
    /\ Len(sent) = 1 /\ sent[1].data = <<"c", " ", "c">>
    /\ emotion = "HAPPY"
    /\ appState = "speaking"

\* C22: sendChatMessage with a non-blank text while the socket is not open
\* sends no frame, sets the error and leaves appState idle.
C22_ChatNotConnected ==
    [][\A text \in ChatTexts :
         NonBlank(text) /\ socketRef.rs # "OPEN" /\ ChatStep(text)
         => /\ sent' = sent
            /\ error' = "notConnected"
            /\ appState' = "idle"]_vars

\* A chat submitted from listening, with a capture, before the socket opened
C22_Witness ==
    /\ gChatCalls >= 1
    /\ socketRef.rs = "CONNECTING"
    /\ error = "notConnected"
    /\ appState = "idle"
    /\ sent = <<>>
    /\ Len(messages) = 1
    /\ Len(captures) = 1

\* C23: sendChatMessage with a blank text changes nothing: no message, no
\* frame, the capture goes on, appState, transcript and error are kept.
C23_BlankChatNoOp ==
    [][\A text \in ChatTexts :
         ~NonBlank(text) /\ ChatStep(text)
         => UNCHANGED <<connVars, uiVars, playVars, capVars, logVars>>]_vars

\* Blank texts were submitted during a capture with an interim transcript.
C23_Witness ==
    /\ gChatCalls = MaxChatCalls
    /\ messages = <<>>
    /\ sent = <<>>
    /\ Recording(Cur)
    /\ appState = "listening"
    /\ transcript # <<>>

\* C24: an error frame sets the error to the message of the frame (to the
\* default text if the frame has none) and appState to idle.
C24_ErrorFrame ==
    [][\A m \in ErrorMessages :
         ErrorStep(m)
         => /\ error' = (IF m = "" THEN "default" ELSE m)
            /\ appState' = "idle"]_vars

\* An error frame received during a capture
C24_Witness ==
    /\ error = "server"
    /\ appState = "idle"
    /\ Recording(Cur)
    /\ appStateRef = "listening"

\* C26: a frame that is not valid JSON changes no cell of the session, and
\* frames can still be received after it.
C26_MalformedDropped ==
    [][FrameMalformed
       => /\ UNCHANGED <<connVars, uiVars, playVars, capVars, logVars>>
          /\ CanReceive']_vars

\* A reply was processed after a malformed frame had been dropped.
C26_Witness ==
    /\ gDrops # <<>>
    /\ \E k \in 1 .. Len(messages) :
         messages[k].type = "ai" /\ messages[k].gArr > gDrops[1]
-----------------------------------------------------------------------------
(* Recovery after failures, outbound sends, skipped fragments: properties *)

\* C25: after an error frame, a call of startRecording leads to listening
\* with an active capture: when the call returns, either the recorder is
\* being started or a capture is recording and appState is listening.
C25_UsableAfterError ==
    [][StartRecording /\ error = "server"
       => \/ starts' # <<>>
          \/ Recording(Cur)' /\ appState' = "listening"]_vars

\* C27: when the encoding of a stopped segment completes while the socket
\* is not open, the audio_complete frame is not transmitted and an error is
\* set.
C27_UnsentSetsError ==
    [][ReaderLoads /\ socketRef.rs # "OPEN"
       => sent' = sent /\ error' # "null"]_vars

\* C29: a capture segment that was stopped with zero chunks has no
\* audio_complete frame, neither sent nor being encoded.
C29_EmptySegmentNotSent ==
    \A c \in 1 .. Len(captures) :
        captures[c].rec = "done" /\ captures[c].chunks = <<>>
        => FramesOf(c) = {} /\ ReadersOf(c) = {}

\* A segment stopped without a chunk on an open socket, next to a segment
\* that was sent
C29_Witness ==
    /\ socketRef.rs = "OPEN"
    /\ Len(captures) = 2
    /\ captures[1].rec = "done" /\ captures[1].chunks = <<>>
    /\ captures[2].rec = "done" /\ FramesOf(2) # {}
    /\ Len(sent) = 1

\* The fragments whose decode is in progress
Decoding == {drains[k].frag : k \in {j \in 1 .. Len(drains) : drains[j].pc = "decode"}}

\* A failed decode skips its fragment and goes on with the queue: the
\* fragment is never started, and the head of the queue, if there is one,
\* is the next fragment to be decoded; on an empty queue the playback flag
\* is lowered and the accumulator of the reply is emptied.
DecodeFailureSkips ==
    [][DecodeRejects
       => /\ gStarted' = gStarted
          /\ Cardinality(Decoding' \ Decoding) <= 1
          /\ IF audioQueueRef # <<>>
             THEN /\ audioQueueRef' = Tail(audioQueueRef)
                  /\ Head(audioQueueRef) \in Decoding'
                  /\ isPlayingRef'
                  /\ appState' = "speaking"
             ELSE /\ audioQueueRef' = <<>>
                  /\ ~isPlayingRef'
                  /\ currentAiAudioChunksRef' = <<>>]_vars

\* C28: a failed decode skips its fragment and the drain goes on with the
\* head of the queue; when the failed fragment was the last one the
\* completion step runs: the accumulator is emptied and appState leaves
\* speaking.
C28_DecodeFailureCompletes ==
    [][DecodeRejects
       => /\ gStarted' = gStarted
          /\ audioQueueRef # <<>> => Head(audioQueueRef) \in Decoding'
          /\ audioQueueRef = <<>>
             => /\ currentAiAudioChunksRef' = <<>>
                /\ appState = "speaking" =>
                     appState' # "speaking" \/ Len(starts') > Len(starts)]_vars

\* The chunks of s were all captured in one segment.
OneSegment(s) ==
    s # <<>> => \E c \in 1 .. Len(captures) :
                   \A k \in 1 .. Len(s) :
                      \E j \in 1 .. Len(captures[c].chunks) : captures[c].chunks[j] = s[k]

\* C30: the audio attached to a user message holds chunks of one capture
\* segment only, never chunks of an earlier segment as well.
C30_UserAudioOneSegment ==
    \A k \in 1 .. Len(messages) :
        messages[k].type = "user" => OneSegment(messages[k].audioData)
-----------------------------------------------------------------------------
(* Reconnection and the session: properties *)

\* A socket event or a reconnect timer
ConnectionEvent == SocketOpens \/ SocketDrops \/ TimerFires

\* C31: socket open, error and close events and the reconnect timer leave
\* appState, the message log, transcript, emotion, the conversation-active
\* flag and the playback queue unchanged.
C31_ReconnectTransparent ==
    [][ConnectionEvent
       => UNCHANGED <<appState, appStateRef, messages, transcript, emotion,
                      isConversationActiveRef, isConversationActive,
                      audioQueueRef, isPlayingRef, drains, playing,
                      currentAiAudioChunksRef, captures, mediaRecorderRef>>]_vars

\* The reconnect timer has created a new socket after a failed connection,
\* in the middle of a conversation.
C31_Witness ==
    /\ gCreated
    /\ reconnectAttemptRef = 1
    /\ socketRef.rs = "CONNECTING"
    /\ error = "conn"
    /\ appState = "listening"
    /\ Recording(Cur)
    /\ isConversationActive
    /\ Len(messages) = 1
    /\ transcript # <<>>

\* No capture is recording and no start of a capture is in progress.
NoCapture == ~Recording(Cur) /\ starts = <<>>

\* C32: a recording_started frame processed after a stop, when no capture
\* is active or pending, does not move appState to listening.
C32_StaleRecordingStarted ==
    [][/\ FrameRecordingStarted
       /\ captures # <<>>
       /\ NoCapture
       /\ appState # "listening"
       => appState' # "listening"]_vars

\* The most recent settings object was transmitted in an update_settings
\* frame.
SettingsTransmitted ==
    \E k \in 1 .. Len(sent) :
        sent[k].type = "update_settings" /\ sent[k].data = <<currentSettingsRef>>

\* C39: once updateSettings has been called and the connection is open, the
\* most recent settings object is eventually transmitted in an
\* update_settings frame, also when the call was made before the socket
\* opened.
C39_SettingsReachBackend ==
    (currentSettingsRef # 0 /\ socketRef.rs = "OPEN") ~> SettingsTransmitted

\* C36: in every state, if a recorder is recording then appState is
\* listening.
C36_CaptureOnlyWhileListening ==
    ActiveRecorders # {} => appState = "listening"

\* C37: stopRecording leaves appState, the message log, transcript, emotion
\* and error unchanged; it clears the conversation-active flag, stops the
\* recorder it holds and releases the tracks of the stream it holds.
C37_StopKeepsState ==
    [][StopRecording
       => /\ UNCHANGED <<appState, messages, transcript, emotion, error>>
          /\ ~isConversationActiveRef' /\ ~isConversationActive'
          /\ ~Recording(Cur)'
          /\ mediaStreamRef' = 0
          /\ mediaStreamRef # 0 => ~captures'[mediaStreamRef].live]_vars

\* A running capture was stopped by stopRecording: appState is still
\* listening.
C37_Witness ==
    /\ appState = "listening"
    /\ ~isConversationActiveRef /\ ~isConversationActive
    /\ Len(captures) = 1
    /\ captures[1].rec = "inactive"
    /\ ~captures[1].live
    /\ mediaStreamRef = 0
    /\ mediaRecorderRef = 1

\* C38: when the captures are stopped by chat submissions only, the frames
\* transmitted are the chat_message frames: no audio_complete frame is sent
\* for a capture that a chat submission interrupted.
C38_ChatSendsOneFrame ==
    \A k \in 1 .. Len(sent) : sent[k].type = "chat_message"

\* C35: appState speaking is always left eventually: once the fragments
\* received have been played and no further frame arrives, appState becomes
\* idle or listening.
C35_SpeakingNotStuck ==
    (appState = "speaking") ~> (appState # "speaking")
====
